---- MODULE Spec2Model ----
(***************************************************************************)
(* DC System Aggregator (dcsystem_service.py).                             *)
(*                                                                         *)
(* The service keeps a snapshot (_local_values) of nine output paths.  A   *)
(* 200 ms timer runs update(), which recomputes the snapshot from the      *)
(* readings cached by DbusMonitor; a 1 s timer runs publish(), which       *)
(* copies the snapshot to the exported D-Bus service.  Both callbacks and  *)
(* the monitor's signal handlers run on one GLib main loop, so each is one *)
(* atomic step.                                                            *)
(*                                                                         *)
(* Numbers.  Python floats are modelled as exact reduced fractions         *)
(* [n |-> numerator, d |-> denominator] with d > 0.  Python's None is the  *)
(* record with d = 0, so that every reading and every snapshot value has   *)
(* one shape.  A ZeroDivisionError is the value Err.                       *)
(***************************************************************************)
EXTENDS Integers, Sequences, FiniteSets, TLC

VARIABLES
    monitor,        \* DbusMonitor cache: category -> services in discovery order
    local_values,   \* self._local_values: the bus snapshot
    service,        \* self.service[...]: the exported (published) values
    raised,         \* an update() call ended in an exception
    route,          \* history: path taken by the latest cycle
    written,        \* history: snapshot keys assigned by the latest cycle
    runs,           \* history: cycles run since the registry last changed
    synced          \* history: publish() ran and no cycle has run since

vars == <<monitor, local_values, service, raised, route, written, runs, synced>>

----------------------------------------------------------------------------
(* Program constants *)

ALARM_OK == 0
ALARM_WARNING == 1
ALARM_ALARM == 2
VOLTAGE_DEADBAND == 1

----------------------------------------------------------------------------
(* Numbers *)

None == [n |-> 0, d |-> 0]
Err == [n |-> 1, d |-> 0]

Abs(k) == IF k < 0 THEN -k ELSE k

RECURSIVE GCD(_, _)
GCD(a, b) == IF b = 0 THEN a ELSE GCD(b, a % b)

Norm(num, den) ==
    LET g == GCD(Abs(num), den)
    IN  [n |-> IF num < 0 THEN -(Abs(num) \div g) ELSE num \div g, d |-> den \div g]

\* float(k) of an integer literal or reading
Float(k) == [n |-> k, d |-> 1]

Add(a, b) == Norm(a.n * b.d + b.n * a.d, a.d * b.d)
Neg(a) == [n |-> -a.n, d |-> a.d]
Sub(a, b) == Add(a, Neg(b))
Mul(a, b) == Norm(a.n * b.n, a.d * b.d)
Gt(a, b) == a.n * b.d > b.n * a.d
\* Python's a / b
TrueDiv(a, b) ==
    IF b.n = 0 THEN Err
    ELSE IF b.n < 0 THEN Norm(-(a.n * b.d), a.d * (-b.n))
    ELSE Norm(a.n * b.d, a.d * b.n)
\* Python's max(a, b): the first argument wins a tie
Max(a, b) == IF Gt(b, a) THEN b ELSE a

RECURSIVE Sum(_)
Sum(seq) == IF seq = <<>> THEN Float(0) ELSE Add(Sum(SubSeq(seq, 1, Len(seq) - 1)), seq[Len(seq)])

----------------------------------------------------------------------------
(* The monitored tree and the snapshot keys *)

Categories ==
    {"battery", "vebus", "solarcharger", "charger", "fuelcell", "alternator",
     "dcload", "dcsource"}

AlarmPaths == {"LowVoltage", "HighVoltage", "LowTemperature", "HighTemperature"}

\* The nine paths of the exported service, "/Dc/0/Voltage" written Voltage etc.
\* _local_values also holds the mandatory and settings paths of the service;
\* update() never assigns them, and they are left out.
Keys == {"Voltage", "Current", "Power", "EnergyIn", "EnergyOut"} \cup AlarmPaths

BalanceKeys == {"Voltage", "Power", "Current"}

\* self._local_values after __init__: every path at its add_path() value
InitialValues == [k \in Keys |-> Float(0)]

\* DbusMonitor.get_value(serviceName, path, defaultValue): the cached reading,
\* or defaultValue when the path holds none; s is the service's cached readings
get_value(s, path, defaultValue) == IF s[path] = None THEN defaultValue ELSE s[path]

get_service_list(reg, class) == reg[class]

----------------------------------------------------------------------------
(* update(): battery resolution and the category sums *)

\* Variant: None wins, as in SQL
safeadd_strict(a, b) == IF a = None \/ b = None THEN None ELSE Add(a, b)

safeadd(a, b) ==
    IF a = None THEN b
    ELSE IF b = None THEN a
    ELSE Add(a, b)

NoBattery == [power |-> None, voltage |-> None]

get_battery_vebus(reg) ==
    LET vebusses == get_service_list(reg, "vebus")
    IN  IF vebusses # <<>>
        THEN LET s == Head(vebusses)
                 v == get_value(s, "Voltage", None)
                 i == get_value(s, "Current", None)
             IN  IF v # None /\ i # None /\ Gt(v, Float(0))
                 THEN [power |-> Mul(v, i), voltage |-> v]
                 ELSE NoBattery
        ELSE NoBattery

\* Variant: the battery monitor's voltage is not checked for > 0
get_battery_any_voltage(reg) ==
    LET batteries == get_service_list(reg, "battery")
    IN  IF batteries # <<>>
        THEN LET s == Head(batteries)
                 p == get_value(s, "Power", None)
                 v == get_value(s, "Voltage", None)
             IN  IF p # None /\ v # None
                 THEN [power |-> p, voltage |-> v]
                 ELSE get_battery_vebus(reg)
        ELSE get_battery_vebus(reg)

get_battery(reg) ==
    LET batteries == get_service_list(reg, "battery")
    IN  IF batteries # <<>>
        THEN LET s == Head(batteries)
                 p == get_value(s, "Power", None)
                 v == get_value(s, "Voltage", None)
             IN  IF p # None /\ v # None /\ Gt(v, Float(0))
                 THEN [power |-> p, voltage |-> v]
                 ELSE get_battery_vebus(reg)
        ELSE get_battery_vebus(reg)

\* One service's term of a category sum.  For the solar charger,
\* get_value(s, '/Load/I', 0) or 0 is the load current, 0 when absent.
SolarTerm(s) ==
    LET v == get_value(s, "Voltage", None)
        i == get_value(s, "Current", None)
        l == get_value(s, "LoadI", Float(0))
    IN  IF v # None /\ i # None THEN Mul(v, Add(i, l)) ELSE Float(0)

ViTerm(s) ==
    LET v == get_value(s, "Voltage", None)
        i == get_value(s, "Current", None)
    IN  IF v # None /\ i # None THEN Mul(v, i) ELSE Float(0)

PowerTerm(s) ==
    LET p == get_value(s, "Power", None)
    IN  IF p # None THEN p ELSE Float(0)

PowerOrViTerm(s) ==
    LET p == get_value(s, "Power", None)
    IN  IF p = None THEN ViTerm(s) ELSE p

Terms(Op(_), seq) == [k \in 1..Len(seq) |-> Op(seq[k])]

\* Variant: the load output current is left out
get_solar_power_no_load(reg) == Sum(Terms(ViTerm, get_service_list(reg, "solarcharger")))

get_solar_power(reg) == Sum(Terms(SolarTerm, get_service_list(reg, "solarcharger")))

get_charger_power(reg) == Sum(Terms(ViTerm, get_service_list(reg, "charger")))

get_fuelcell_power(reg) == Sum(Terms(ViTerm, get_service_list(reg, "fuelcell")))

get_alternator_power(reg) == Sum(Terms(PowerTerm, get_service_list(reg, "alternator")))

get_vebus_dc_power(reg) == Sum(Terms(ViTerm, get_service_list(reg, "vebus")))

get_dcsource_power(reg) == Sum(Terms(PowerOrViTerm, get_service_list(reg, "dcsource")))

get_dcload_power(reg) == Sum(Terms(PowerOrViTerm, get_service_list(reg, "dcload")))

dc_system(reg, battery_power) ==
    Sub(Sub(Add(Add(Add(Add(Add(get_solar_power(reg), get_charger_power(reg)),
                            get_fuelcell_power(reg)),
                        get_alternator_power(reg)),
                    get_dcsource_power(reg)),
                get_vebus_dc_power(reg)),
            battery_power),
        get_dcload_power(reg))

\* Variant: the current is taken to be the power
BalanceEngine_no_division(reg, battery) ==
    LET dc == dc_system(reg, battery.power)
    IN  [writes |-> [k \in BalanceKeys |->
                        CASE k = "Voltage" -> battery.voltage
                          [] k = "Power" -> dc
                          [] k = "Current" -> dc],
         raised |-> FALSE]

\* update(), lines 261-280: the writes of a Balance Engine cycle
BalanceEngine(reg, battery) ==
    LET dc == dc_system(reg, battery.power)
        current == IF Gt(battery.voltage, Float(0))
                   THEN TrueDiv(dc, battery.voltage)
                   ELSE Float(0)
    IN  IF current = Err
        THEN [writes |-> [k \in {"Voltage", "Power"} |->
                            IF k = "Voltage" THEN battery.voltage ELSE dc],
              raised |-> TRUE]
        ELSE [writes |-> [k \in BalanceKeys |->
                            CASE k = "Voltage" -> battery.voltage
                              [] k = "Power" -> dc
                              [] k = "Current" -> current],
              raised |-> FALSE]

----------------------------------------------------------------------------
(* _update_simple_aggregation(): the fallback *)

\* The accumulators of lines 296-305
Accumulators ==
    [totalCurrent |-> None, totalPower |-> None,
     voltageSum |-> Float(0), voltageCount |-> 0,
     totalEnergyIn |-> Float(0), totalEnergyOut |-> Float(0),
     maxAlarm |-> [a \in AlarmPaths |-> Float(ALARM_OK)]]

DerivedPower(s) ==
    LET voltage == get_value(s, "Voltage", None)
        current == get_value(s, "Current", None)
        power == get_value(s, "Power", None)
    IN  IF power = None /\ voltage # None /\ current # None
        THEN Mul(voltage, current)
        ELSE power

\* Variant: a reading at the deadband counts
AboveDeadband_inclusive(voltage) ==
    voltage # None /\ ~Gt(Float(VOLTAGE_DEADBAND), voltage)

AboveDeadband(voltage) == voltage # None /\ Gt(voltage, Float(VOLTAGE_DEADBAND))

\* Variant: the latest service's severity replaces the running maximum
MaxAlarms_latest(acc, s) ==
    [a \in AlarmPaths |-> get_value(s, a, Float(ALARM_OK))]

MaxAlarms(acc, s) ==
    [a \in AlarmPaths |-> Max(get_value(s, a, Float(ALARM_OK)), acc.maxAlarm[a])]

\* One iteration of the loop over dcloads, lines 308-343
ProcessLoad(acc, s) ==
    LET voltage == get_value(s, "Voltage", None)
        current == get_value(s, "Current", None)
        power == DerivedPower(s)
        energyIn == get_value(s, "EnergyIn", Float(0))
    IN  [totalCurrent |-> safeadd(acc.totalCurrent, current),
         totalPower |-> safeadd(acc.totalPower, power),
         voltageSum |-> IF AboveDeadband(voltage) THEN Add(acc.voltageSum, voltage)
                        ELSE acc.voltageSum,
         voltageCount |-> IF AboveDeadband(voltage) THEN acc.voltageCount + 1
                          ELSE acc.voltageCount,
         totalEnergyIn |-> IF energyIn # None THEN Add(acc.totalEnergyIn, energyIn)
                           ELSE acc.totalEnergyIn,
         totalEnergyOut |-> acc.totalEnergyOut,
         maxAlarm |-> MaxAlarms(acc, s)]

\* One iteration of the loop over dcsources, lines 346-387
ProcessSource(acc, s) ==
    LET voltage == get_value(s, "Voltage", None)
        current0 == get_value(s, "Current", None)
        power0 == DerivedPower(s)
        current == IF current0 # None THEN Neg(current0) ELSE current0
        power == IF power0 # None THEN Neg(power0) ELSE power0
        energyOut == get_value(s, "EnergyOut", Float(0))
    IN  [totalCurrent |-> safeadd(acc.totalCurrent, current),
         totalPower |-> safeadd(acc.totalPower, power),
         voltageSum |-> IF AboveDeadband(voltage) THEN Add(acc.voltageSum, voltage)
                        ELSE acc.voltageSum,
         voltageCount |-> IF AboveDeadband(voltage) THEN acc.voltageCount + 1
                          ELSE acc.voltageCount,
         totalEnergyIn |-> acc.totalEnergyIn,
         totalEnergyOut |-> IF energyOut # None THEN Add(acc.totalEnergyOut, energyOut)
                            ELSE acc.totalEnergyOut,
         maxAlarm |-> MaxAlarms(acc, s)]

RECURSIVE LoadsLoop(_, _)
LoadsLoop(acc, dcloads) ==
    IF dcloads = <<>> THEN acc
    ELSE LoadsLoop(ProcessLoad(acc, Head(dcloads)), Tail(dcloads))

RECURSIVE SourcesLoop(_, _)
SourcesLoop(acc, dcsources) ==
    IF dcsources = <<>> THEN acc
    ELSE SourcesLoop(ProcessSource(acc, Head(dcsources)), Tail(dcsources))

\* Line 390
MeanVoltage(voltageSum, voltageCount) ==
    IF voltageCount > 0 THEN TrueDiv(voltageSum, Float(voltageCount)) ELSE None

\* Lines 389-398: the writes of a fallback cycle
update_simple_aggregation(reg) ==
    LET acc == SourcesLoop(LoadsLoop(Accumulators, get_service_list(reg, "dcload")),
                           get_service_list(reg, "dcsource"))
        voltage == MeanVoltage(acc.voltageSum, acc.voltageCount)
    IN  IF voltage = Err
        THEN [writes |-> [k \in {} |-> None], raised |-> TRUE]
        ELSE [writes |-> [k \in Keys |->
                CASE k = "Voltage" -> voltage
                  [] k = "Current" -> IF acc.totalCurrent # None THEN acc.totalCurrent
                                      ELSE Float(0)
                  [] k = "Power" -> IF acc.totalPower # None THEN acc.totalPower
                                    ELSE Float(0)
                  [] k = "EnergyIn" -> acc.totalEnergyIn
                  [] k = "EnergyOut" -> acc.totalEnergyOut
                  [] OTHER -> acc.maxAlarm[k]],
              raised |-> FALSE]

----------------------------------------------------------------------------
(* The two timer callbacks *)

MaxRuns == 2

\* Variant: the Balance Engine path also clears energy and alarms
Cycle_clearing(reg) ==
    LET battery == get_battery(reg)
    IN  IF ~(battery.power = None \/ battery.voltage = None)
        THEN [writes |-> [k \in Keys |->
                            IF k \in BalanceKeys THEN BalanceEngine(reg, battery).writes[k]
                            ELSE Float(0)],
              raised |-> FALSE]
        ELSE update_simple_aggregation(reg)

\* Variant: the fallback leaves the energy counters alone
Cycle_no_energy(reg) ==
    LET battery == get_battery(reg)
    IN  IF ~(battery.power = None \/ battery.voltage = None)
        THEN BalanceEngine(reg, battery)
        ELSE [writes |-> [k \in Keys \ {"EnergyIn", "EnergyOut"} |->
                            update_simple_aggregation(reg).writes[k]],
              raised |-> FALSE]

BalanceApplies(reg) ==
    LET battery == get_battery(reg)
    IN  ~(battery.power = None \/ battery.voltage = None)

\* update(), lines 252-287: what one cycle writes
Cycle(reg) ==
    IF BalanceApplies(reg)
    THEN BalanceEngine(reg, get_battery(reg))
    ELSE update_simple_aggregation(reg)

\* Variant: the energy counters are integrated cycle by cycle
Assign_integrating(values, writes) ==
    [k \in Keys |-> IF k \in DOMAIN writes
                    THEN IF k \in {"EnergyIn", "EnergyOut"}
                         THEN Add(values[k], writes[k])
                         ELSE writes[k]
                    ELSE values[k]]

Assign(values, writes) ==
    [k \in Keys |-> IF k \in DOMAIN writes THEN writes[k] ELSE values[k]]

update ==
    LET cycle == Cycle(monitor)
    IN  /\ local_values' = Assign(local_values, cycle.writes)
        /\ raised' = (raised \/ cycle.raised)
        /\ route' = IF BalanceApplies(monitor) THEN "balance" ELSE "fallback"
        /\ written' = DOMAIN cycle.writes
        /\ runs' = IF runs < MaxRuns THEN runs + 1 ELSE runs
        /\ synced' = FALSE
        /\ UNCHANGED <<monitor, service>>

\* Variant: invalid (None) values are not exported
Exported_valid_only(exported, values) ==
    [k \in Keys |-> IF values[k] = None THEN exported[k] ELSE values[k]]

\* publish(), lines 402-405: the values self.service holds afterwards
Exported(exported, values) == [k \in Keys |-> values[k]]

publish ==
    /\ service' = Exported(service, local_values)
    /\ synced' = TRUE
    /\ UNCHANGED <<monitor, local_values, raised, route, written, runs>>

----------------------------------------------------------------------------
(* The registry: what DbusMonitor can hold *)

EmptyRegistry == [c \in Categories |-> <<>>]

\* Readings of one service; a path the monitor does not watch for the
\* service's class stays None
Readings(P, V, I, L, Ein, Eout, Alarms) ==
    {[Power |-> p, Voltage |-> v, Current |-> i, LoadI |-> l, EnergyIn |-> ein,
      EnergyOut |-> eout, LowVoltage |-> a[1], HighVoltage |-> a[2],
      LowTemperature |-> a[3], HighTemperature |-> a[4]] :
        p \in P, v \in V, i \in I, l \in L, ein \in Ein, eout \in Eout, a \in Alarms}

NoAlarms == {<<None, None, None, None>>}

Severities == {Float(ALARM_OK), Float(ALARM_WARNING), Float(ALARM_ALARM)}

\* Alarm readings with at most one of the four paths reported
OneAlarm ==
    NoAlarms \cup {[k \in 1..4 |-> IF k = j THEN sev ELSE None] : j \in 1..4, sev \in Severities}

Of(class, readings) == {<<class, r>> : r \in readings}

None1 == {None}

\* Batteries and converters, resolvable or not, and a plain DC load
ReferenceServices ==
    Of("battery", Readings({None, Float(0), Float(-50)}, {None, Float(0), Float(12)},
                           None1, None1, None1, None1, NoAlarms))
    \cup Of("vebus", Readings(None1, {None, Float(0), Float(12)}, {None, Float(-3)},
                              None1, None1, None1, NoAlarms))
    \cup Of("dcload", Readings({None, Float(7)}, None1, None1, None1, None1, None1, NoAlarms))

\* Services of every class the Balance Engine sums
SummedServices ==
    Of("vebus", Readings(None1, {None, Float(0), Float(12)}, {None, Float(-3)},
                         None1, None1, None1, NoAlarms))
    \cup Of("solarcharger", Readings(None1, {None, Float(13)}, {None, Float(5)},
                                     {None, Float(1)}, None1, None1, NoAlarms))
    \cup Of("charger", Readings(None1, {None, Float(14)}, {None, Float(2)},
                                None1, None1, None1, NoAlarms))
    \cup Of("fuelcell", Readings(None1, {None, Float(11)}, {None, Float(1)},
                                 None1, None1, None1, NoAlarms))
    \cup Of("alternator", Readings({None, Float(40)}, None1, None1,
                                   None1, None1, None1, NoAlarms))
    \cup Of("dcsource", Readings({None, Float(30)}, {None, Float(24)}, {None, Float(2)},
                                 None1, None1, None1, NoAlarms))
    \cup Of("dcload", Readings({None, Float(7)}, {None, Float(24)}, {None, Float(3)},
                               None1, None1, None1, NoAlarms))

\* A battery monitor, and a converter, that resolve
GoodBattery ==
    CHOOSE x \in Of("battery", Readings({Float(-50)}, {Float(12)}, None1, None1, None1,
                                        None1, NoAlarms)) : TRUE

GoodVebus ==
    CHOOSE x \in Of("vebus", Readings(None1, {Float(12)}, {Float(-3)}, None1, None1,
                                      None1, NoAlarms)) : TRUE

\* A battery monitor that reports no power
DumbBattery ==
    CHOOSE x \in Of("battery", Readings(None1, {Float(12)}, None1, None1, None1,
                                        None1, NoAlarms)) : TRUE

\* DC loads and DC sources with the electrical readings the fallback sums
MeterServices ==
    Of("dcload", Readings({None, Float(0), Float(30)}, {None, Float(12)}, {None, Float(2)},
                          None1, None1, None1, NoAlarms))
    \cup Of("dcload", Readings(None1, {Float(1), Float(13)}, None1,
                               None1, None1, None1, NoAlarms))
    \cup Of("dcsource", Readings({None, Float(0), Float(30)}, {None, Float(12)}, {None, Float(2)},
                                 None1, None1, None1, NoAlarms))
    \cup Of("dcsource", Readings(None1, {Float(1), Float(13)}, None1,
                                 None1, None1, None1, NoAlarms))
    \cup {DumbBattery}

\* DC loads and DC sources with energy counters or alarms, and a battery
AlarmServices ==
    Of("dcload", Readings(None1, None1, None1, None1, None1, None1, OneAlarm))
    \cup Of("dcload", Readings(None1, None1, None1, None1, {Float(5)}, None1, NoAlarms))
    \cup Of("dcsource", Readings(None1, None1, None1, None1, None1, None1, OneAlarm))
    \cup Of("dcsource", Readings(None1, None1, None1, None1, None1, {Float(3)}, NoAlarms))
    \cup {GoodBattery}

MaxServices == 2

AddService(reg, x) == [reg EXCEPT ![x[1]] = Append(@, x[2])]

\* The registry after the services xs were discovered in turn
RECURSIVE Discover(_, _)
Discover(reg, xs) ==
    IF xs = <<>> THEN reg ELSE Discover(AddService(reg, Head(xs)), Tail(xs))

Arrivals(Services, n) == UNION {[1..k -> Services] : k \in 0..n}

----------------------------------------------------------------------------
(* Specification of compute and publish over a given registry *)

Fresh ==
    /\ local_values = InitialValues
    /\ service = InitialValues
    /\ raised = FALSE
    /\ route = "none"
    /\ written = {}
    /\ runs = 0
    /\ synced = FALSE

InitCompute ==
    /\ \/ \E S \in {ReferenceServices, MeterServices, AlarmServices} :
            \E xs \in Arrivals(S, MaxServices) : monitor = Discover(EmptyRegistry, xs)
       \/ \E first \in {GoodBattery, GoodVebus} :
            \E xs \in Arrivals(SummedServices, MaxServices) :
                monitor = Discover(EmptyRegistry, <<first>> \o xs)
    /\ Fresh

NextCompute == update \/ publish

SpecCompute == InitCompute /\ [][NextCompute]_vars

----------------------------------------------------------------------------
(* Specification of the running service: the registry changes between the  *)
(* timer callbacks                                                         *)

MaxLive == 2

LiveServices ==
    {GoodBattery, DumbBattery}
    \cup Of("dcload", Readings(None1, None1, {None, Float(2)}, None1, None1, None1,
                               {<<None, None, None, None>>,
                                <<Float(ALARM_ALARM), None, None, None>>}))
    \cup Of("dcsource", Readings(None1, None1, None1, None1, None1, {None, Float(3)},
                                 NoAlarms))

Paths ==
    {"Power", "Voltage", "Current", "LoadI", "EnergyIn", "EnergyOut"} \cup AlarmPaths

LiveClasses == {x[1] : x \in LiveServices}

LiveValues(class, path) == {x[2][path] : x \in {y \in LiveServices : y[1] = class}}

Count(reg) == Len(reg["battery"]) + Len(reg["vebus"]) + Len(reg["solarcharger"])
              + Len(reg["charger"]) + Len(reg["fuelcell"]) + Len(reg["alternator"])
              + Len(reg["dcload"]) + Len(reg["dcsource"])

Remove(seq, i) == SubSeq(seq, 1, i - 1) \o SubSeq(seq, i + 1, Len(seq))

Changed ==
    /\ runs' = 0
    /\ UNCHANGED <<local_values, service, raised, route, written, synced>>

\* DbusMonitor: a service appeared on the bus and its paths were scanned
ServiceAdded ==
    /\ Count(monitor) < MaxLive
    /\ \E x \in LiveServices : monitor' = AddService(monitor, x)
    /\ Changed

\* DbusMonitor: a service left the bus
ServiceRemoved ==
    /\ \E class \in LiveClasses : \E i \in 1..Len(monitor[class]) :
          monitor' = [monitor EXCEPT ![class] = Remove(@, i)]
    /\ Changed

\* DbusMonitor: a watched path of a service changed, or became invalid
ValueChanged ==
    /\ \E class \in LiveClasses : \E i \in 1..Len(monitor[class]) :
          \E path \in Paths : \E v \in LiveValues(class, path) :
              /\ v # monitor[class][i][path]
              /\ monitor' = [monitor EXCEPT ![class][i][path] = v]
    /\ Changed

Init == monitor = EmptyRegistry /\ Fresh

Next == ServiceAdded \/ ServiceRemoved \/ ValueChanged \/ update \/ publish

Spec == Init /\ [][Next]_vars

----------------------------------------------------------------------------
(* Reference quantities, stated over the registry in whole numbers.  Every *)
(* reading of the registries above is a whole number.                      *)

Has(x) == x.d # 0

Whole(x) == x.n

RECURSIVE IntSum(_)
IntSum(seq) == IF Len(seq) = 0 THEN 0 ELSE Head(seq) + IntSum(Tail(seq))

Over(class, Term(_)) == IntSum([k \in 1..Len(monitor[class]) |-> Term(monitor[class][k])])

OrZero(x) == IF Has(x) THEN Whole(x) ELSE 0

VoltsTimesAmps(s) ==
    IF Has(s.Voltage) /\ Has(s.Current) THEN Whole(s.Voltage) * Whole(s.Current) ELSE 0

SolarWatts(s) ==
    IF Has(s.Voltage) /\ Has(s.Current)
    THEN Whole(s.Voltage) * (Whole(s.Current) + OrZero(s.LoadI))
    ELSE 0

Watts(s) == IF Has(s.Power) THEN Whole(s.Power) ELSE VoltsTimesAmps(s)

ReportedWatts(s) == OrZero(s.Power)

Amps(s) == OrZero(s.Current)

EnergyInOf(s) == OrZero(s.EnergyIn)

EnergyOutOf(s) == OrZero(s.EnergyOut)

SourcesW ==
    Over("solarcharger", SolarWatts) + Over("charger", VoltsTimesAmps)
    + Over("fuelcell", VoltsTimesAmps) + Over("alternator", ReportedWatts)
    + Over("dcsource", Watts)

ConvertersW == Over("vebus", VoltsTimesAmps)

LoadsW == Over("dcload", Watts)

Meters == monitor["dcload"] \o monitor["dcsource"]

\* Voltage readings above the deadband, over DC loads and DC sources
Qualifying == SelectSeq(Meters, LAMBDA s : Has(s.Voltage) /\ Whole(s.Voltage) > VOLTAGE_DEADBAND)

QualifyingSum == IntSum([k \in 1..Len(Qualifying) |-> Whole(Qualifying[k].Voltage)])

\* The largest severity any DC load or DC source reports for an alarm
Worst(alarm) ==
    LET reported == {ALARM_OK} \cup
            {Whole(Meters[k][alarm]) : k \in {j \in 1..Len(Meters) : Has(Meters[j][alarm])}}
    IN  CHOOSE m \in reported : \A x \in reported : x <= m

FirstResolves(class, reading) ==
    /\ Len(monitor[class]) >= 1
    /\ Has(monitor[class][1][reading]) /\ Has(monitor[class][1].Voltage)
    /\ Whole(monitor[class][1].Voltage) > 0

SomeResolves(class, reading) ==
    \E k \in 1..Len(monitor[class]) :
        /\ Has(monitor[class][k][reading]) /\ Has(monitor[class][k].Voltage)
        /\ Whole(monitor[class][k].Voltage) > 0

\* The snapshot is the one the latest cycle left, computed from this registry
Settled == runs >= 1

IsQuotient(q, num, den) == q.d > 0 /\ q.n * den = num * q.d

----------------------------------------------------------------------------
(* Claims *)

\* C1: a Balance Engine cycle writes power = S + C - P - L, voltage = V and
\* current = (S + C - P - L) / V, with S the sources' sum (solar chargers with
\* their load current, AC chargers, fuel cells, alternators, DC sources), C the
\* converters' DC power, L the DC loads' power, P and V the resolved battery
\* power and voltage; an absent reading contributes 0.
C1_BalanceEquation ==
    (Settled /\ route = "balance") =>
        LET battery == get_battery(monitor)
            unknown == SourcesW + ConvertersW - Whole(battery.power) - LoadsW
        IN  /\ ~raised
            /\ Whole(battery.voltage) > 0
            /\ local_values["Voltage"] = battery.voltage
            /\ local_values["Power"] = Float(unknown)
            /\ IsQuotient(local_values["Current"], unknown, Whole(battery.voltage))

\* A Balance Engine cycle over two solar chargers, one of them with a load
\* current
C1_Witness ==
    /\ Settled /\ route = "balance"
    /\ Len(monitor["solarcharger"]) >= 2
    /\ \E k \in 1..Len(monitor["solarcharger"]) :
          LET s == monitor["solarcharger"][k]
          IN  Has(s.Voltage) /\ Has(s.Current) /\ Has(s.LoadI)
    /\ \E k \in 1..Len(monitor["solarcharger"]) :
          LET s == monitor["solarcharger"][k]
          IN  Has(s.Voltage) /\ Has(s.Current) /\ ~Has(s.LoadI)

\* C2 as stated: a cycle takes the Balance Engine path exactly when some
\* battery service reports power and a voltage > 0 or, failing that, some
\* converter reports voltage and current with voltage > 0; otherwise the
\* fallback runs, without an error.
C2_AnyServiceResolves ==
    Settled =>
        /\ ~raised
        /\ route = IF SomeResolves("battery", "Power") \/ SomeResolves("vebus", "Current")
                   THEN "balance" ELSE "fallback"

\* C2 amended: the path is decided by the first-listed battery service and,
\* failing that, the first-listed converter: the Balance Engine runs exactly
\* when that service reports power (voltage and current for the converter) and
\* a voltage > 0, the battery power then being voltage x current for the
\* converter; otherwise the fallback runs, without an error.
C2_FirstServiceResolves ==
    Settled =>
        /\ ~raised
        /\ route = IF FirstResolves("battery", "Power") \/ FirstResolves("vebus", "Current")
                   THEN "balance" ELSE "fallback"
        /\ route = "fallback" => written = Keys
        /\ (FirstResolves("battery", "Power")) =>
              /\ get_battery(monitor).power = monitor["battery"][1].Power
              /\ get_battery(monitor).voltage = monitor["battery"][1].Voltage
        /\ (~FirstResolves("battery", "Power") /\ FirstResolves("vebus", "Current")) =>
              /\ get_battery(monitor).power = Float(VoltsTimesAmps(monitor["vebus"][1]))
              /\ get_battery(monitor).voltage = monitor["vebus"][1].Voltage

\* A Balance Engine cycle resolved from the converter, behind a battery
\* monitor that reports a voltage of 0
C2_Witness ==
    /\ Settled /\ route = "balance"
    /\ Len(monitor["battery"]) >= 1
    /\ Has(monitor["battery"][1].Power)
    /\ monitor["battery"][1].Voltage = Float(0)
    /\ FirstResolves("vebus", "Current")

C4_CurrentEveryCycle ==
    Settled =>
        /\ ~raised
        /\ IF Has(local_values["Voltage"]) /\ Gt(local_values["Voltage"], Float(0))
           THEN Mul(local_values["Current"], local_values["Voltage"]) = local_values["Power"]
           ELSE local_values["Current"] = Float(0)

\* C4 amended: after a Balance Engine cycle the voltage is > 0 and the current
\* is power / voltage; after a fallback cycle the current is the sum of the DC
\* loads' reported currents minus the DC sources', whatever the voltage; no
\* cycle divides by a zero or absent voltage.
C4_CurrentPerPath ==
    /\ ~raised
    /\ \A k \in Keys : local_values[k] # Err
    /\ (Settled /\ route = "balance") =>
          /\ Has(local_values["Voltage"]) /\ Gt(local_values["Voltage"], Float(0))
          /\ Mul(local_values["Current"], local_values["Voltage"]) = local_values["Power"]
    /\ (Settled /\ route = "fallback") =>
          local_values["Current"] = Float(Over("dcload", Amps) - Over("dcsource", Amps))

\* A Balance Engine cycle whose current is a proper fraction of the power
C4_Witness ==
    /\ Settled /\ route = "balance"
    /\ local_values["Power"] # Float(0)
    /\ local_values["Current"].d > 1

\* C7: a fallback cycle writes power = loads' power - sources' power (reported,
\* else voltage x current, else nothing), current = loads' reported currents -
\* sources', each 0 when nothing was summed, energy-in = the loads' energy
\* readings summed and energy-out = the sources'.
C7_FallbackSums ==
    (Settled /\ route = "fallback") =>
        /\ local_values["Power"] = Float(Over("dcload", Watts) - Over("dcsource", Watts))
        /\ local_values["Current"] = Float(Over("dcload", Amps) + (0 - Over("dcsource", Amps)))
        /\ local_values["EnergyIn"] = Float(Over("dcload", EnergyInOf))
        /\ local_values["EnergyOut"] = Float(Over("dcsource", EnergyOutOf))

\* A fallback cycle over a load reporting voltage and current but no power
\* and a source reporting power only
C7_Witness ==
    /\ Settled /\ route = "fallback"
    /\ \E k \in 1..Len(monitor["dcload"]) :
          LET s == monitor["dcload"][k]
          IN  ~Has(s.Power) /\ Has(s.Voltage) /\ Has(s.Current)
    /\ \E k \in 1..Len(monitor["dcsource"]) :
          LET s == monitor["dcsource"][k]
          IN  Has(s.Power) /\ Whole(s.Power) > 0 /\ ~Has(s.Voltage) /\ ~Has(s.Current)

\* C8: a fallback cycle writes as voltage the mean of the DC loads' and DC
\* sources' voltage readings above the 1.0 deadband, and None when there is no
\* such reading.
C8_MeanVoltage ==
    (Settled /\ route = "fallback") =>
        /\ ~raised
        /\ IF Len(Qualifying) = 0
           THEN local_values["Voltage"] = None
           ELSE IsQuotient(local_values["Voltage"], QualifyingSum, Len(Qualifying))

\* A fallback cycle that averaged one reading and left out one at the
\* deadband
C8_Witness ==
    /\ Settled /\ route = "fallback"
    /\ Has(local_values["Voltage"])
    /\ \E k \in 1..Len(Meters) : Meters[k].Voltage = Float(VOLTAGE_DEADBAND)

----------------------------------------------------------------------------
(* Claims about sequences of cycles *)

\* A step in which update() ran
CycleStep == runs' >= 1 /\ synced' = FALSE /\ monitor' = monitor /\ service' = service

Survivors == Keys \ BalanceKeys

\* C5 as stated: whatever the interleaving, publish() copies a snapshot all of
\* whose values were produced by the most recently finished cycle.
C5_AllFromLatestCycle ==
    (synced /\ route # "none") => (service = local_values /\ written = Keys)

\* C5 amended: whatever the interleaving, publish() copies the whole snapshot
\* as the most recently finished cycle left it, never a partly updated one;
\* its voltage, current and power were written by that cycle, its energy and
\* alarm entries by the latest fallback cycle.
C5_WholeSnapshot ==
    synced =>
        /\ service = local_values
        /\ route # "none" => BalanceKeys \subseteq written
        /\ route = "fallback" => written = Keys

\* A publish() after a Balance Engine cycle that followed a fallback cycle:
\* the exported voltage is the battery's, the exported alarm the fallback's
C5_Witness ==
    /\ synced /\ route = "balance"
    /\ service["Voltage"] = Float(12)
    /\ service["LowVoltage"] = Float(ALARM_ALARM)

\* C6 as stated: every cycle, on either path, writes all nine keys.
C6_AllKeysEveryCycle == route # "none" => written = Keys

\* C6 amended: a fallback cycle writes all nine keys, so that nothing earlier
\* survives it; a Balance Engine cycle writes voltage, power and current only.
C6_KeysPerPath ==
    /\ route = "fallback" => written = Keys
    /\ route = "balance" => written = BalanceKeys
    /\ (Settled /\ route = "fallback") =>
          /\ local_values["EnergyIn"] = Float(Over("dcload", EnergyInOf))
          /\ local_values["EnergyOut"] = Float(Over("dcsource", EnergyOutOf))

\* A fallback cycle that wrote a nonzero energy counter
C6_Witness ==
    /\ Settled /\ route = "fallback"
    /\ local_values["EnergyOut"] # Float(0)

\* C9: a Balance Engine cycle leaves energy-in, energy-out and the four alarm
\* severities as they were; only a fallback cycle changes them.
C9_BalanceFrame ==
    [][/\ (CycleStep /\ route' = "balance") =>
              \A k \in Survivors : local_values'[k] = local_values[k]
       /\ (\E k \in Survivors : local_values'[k] # local_values[k]) =>
              (CycleStep /\ route' = "fallback")]_vars

\* After a Balance Engine cycle the snapshot still holds an alarm and an
\* energy total that no present service reports
C9_Witness ==
    /\ Settled /\ route = "balance"
    /\ local_values["LowVoltage"] = Float(ALARM_ALARM)
    /\ local_values["EnergyOut"] = Float(3)
    /\ monitor["dcload"] = <<>> /\ monitor["dcsource"] = <<>>

\* C10: update() run again over an unchanged registry leaves the snapshot as
\* the previous run left it.
C10_Idempotent ==
    [][(runs >= 1 /\ CycleStep) => local_values' = local_values]_vars

\* update() has run twice over the same registry, with services present
C10_Witness ==
    /\ runs >= 2
    /\ local_values # InitialValues
    /\ monitor # EmptyRegistry

====
